---- MODULE Spec2Model ----
(***************************************************************************)
(* Model of cta_tracker/fetch_cta.py: a process that loads two settings    *)
(* (from its environment, completed by load_dotenv from a .env file),      *)
(* fetches the arrivals of one stop (get_cta_train_times), renders them    *)
(* into www/index.html (write_html) and exits.  An external scheduler      *)
(* invokes the process again; only the file system survives a process.     *)
(*                                                                         *)
(* Time.  An instant is a number of ticks since 2024-01-01T00:00:00Z, with *)
(* SubSec ticks to the second (datetime keeps microseconds).  A datetime   *)
(* is a record [civ, tz]: civ is the wall-clock reading in ticks since     *)
(* 2024-01-01 00:00:00 of its own zone, tz its tzinfo.  All modelled       *)
(* readings lie in January 2024, where America/Chicago is at UTC-6 (CST).  *)
(*                                                                         *)
(* Text.  A multi-line string is the sequence of its lines, and a line is *)
(* the sequence of the fragments the f-string puts one after the other:    *)
(* its literal pieces and the values it interpolates.                      *)
(***************************************************************************)
EXTENDS Integers, Sequences, FiniteSets, TLC

VARIABLES
    pc,         \* position of the process: "startup", "main", "fetched", "exit"
    outcome,    \* "running", "ok", or the exception that ended the process
    environ,    \* os.environ: [CTA_API_KEY, STOP_ID], None for a name not set
    hostTz,     \* UTC offset (seconds) of the host's system time zone
    resp,       \* what requests.get produced in this process
    nowFetch,   \* datetime.now(local_tz) read by get_cta_train_times
    trains,     \* the list returned by get_cta_train_times
    html,       \* the document built by write_html in this process
    file,       \* www/index.html: [exists, content, partial]
    fileBefore, \* www/index.html when this process started
    dirExists,  \* whether www/ exists
    netCalls,   \* requests.get calls made by this process
    renders,    \* write_html calls made by this process
    log         \* lines logged by this process

vars == <<pc, outcome, environ, hostTz, resp, nowFetch, trains, html, file,
          fileBefore, dirExists, netCalls, renders, log>>

----------------------------------------------------------------------------
(* Bounds of the model *)

\* longest "eta" array the upstream returns
MaxEta == 2
\* ticks per second (stands for the microseconds of datetime)
SubSec == 2

----------------------------------------------------------------------------
(* Python values *)

\* None, where it can meet a string
PyNone == "<None>"

\* str(v) as an f-string formats it
Str(v) == IF v = PyNone THEN "None" ELSE v

\* a check that takes only None for missing
TruthyNotNone(v) == v # PyNone

\* truthiness of an Optional[str]: None and "" are falsy
Truthy(v) == v # PyNone /\ v # ""

\* dict.get(key, default)
Get(d, key, default) == IF key \in DOMAIN d THEN d[key] ELSE default

EmptyDict == [k \in {} |-> PyNone]

\* What json() decodes to, tagged with its Python type: None, an int, a str
\* (the sequence of its characters), a list (the sequence of its items), a
\* dict (its members by key).  The members of an arrival entry are kept
\* as the texts the loop reads in them.
JNull == [type |-> "NoneType"]
JNumber(n) == [type |-> "int", n |-> n]
JString(chars) == [type |-> "str", chars |-> chars]
JArray(items) == [type |-> "list", items |-> items]
JObject(members) == [type |-> "dict", members |-> members]

\* v.get(...): only a dict has the method
GetRaises(v) == IF v.type = "dict" THEN "" ELSE "AttributeError"

\* for x in v: None and numbers are not iterable
IterRaises(v) == IF v.type \in {"NoneType", "int"} THEN "TypeError" ELSE ""

\* for x in v: the items of a list, the characters of a str, the keys of
\* a dict (each a str, here of one piece)
Iter(v) ==
    CASE v.type = "list" -> v.items
      [] v.type = "str"  -> [i \in 1..Len(v.chars) |-> JString(<<v.chars[i]>>)]
      [] v.type = "dict" ->
           LET keys == DOMAIN v.members
               order == CHOOSE f \in [1..Cardinality(keys) -> keys] :
                            \A k \in keys : \E i \in DOMAIN f : f[i] = k
           IN  [i \in 1..Cardinality(keys) |-> JString(<<order[i]>>)]
      [] OTHER -> << >>

----------------------------------------------------------------------------
(* Configuration, lines 12-20 *)

\* The .env file beside the package, as load_dotenv finds it: not there,
\* there but not readable by the process, there with bytes that are not
\* UTF-8, or there with bindings, in the order of the file.  A binding is
\* [name, value]; the value is None for a name written without "=".
DotEnvMissing == [kind |-> "missing", binds |-> << >>]
DotEnvUnreadable == [kind |-> "unreadable", binds |-> << >>]
DotEnvUndecodable == [kind |-> "undecodable", binds |-> << >>]
DotEnvOf(bindings) == [kind |-> "parsed", binds |-> bindings]

\* a value with a NUL character in it, which os.environ does not take
NulValue == "30249<NUL>"
HasNul(v) == v = NulValue

\* the reading of the file by load_dotenv, line 14: the exception it
\* raises, "" if none.  A file that is not there is read as an empty one.
DotenvReadRaises(dotenv) ==
    CASE dotenv.kind = "unreadable"  -> "PermissionError"
      [] dotenv.kind = "undecodable" -> "UnicodeDecodeError"
      [] OTHER                       -> ""

\* set_as_environment_variables of load_dotenv, override=False, over the
\* bindings left: a name the environment already holds, even with an empty
\* value, is passed over; so is a binding without a value; any other
\* binding is put into os.environ, which raises ValueError on a NUL and
\* leaves the environment with the bindings put before
RECURSIVE SetAsEnvironmentVariables(_, _)
SetAsEnvironmentVariables(env, binds) ==
    IF binds = << >>
    THEN [raised |-> "", env |-> env]
    ELSE LET b == Head(binds)
         IN  IF env[b.name] # PyNone \/ b.value = PyNone
             THEN SetAsEnvironmentVariables(env, Tail(binds))
             ELSE IF HasNul(b.value)
                  THEN [raised |-> "ValueError:load_dotenv", env |-> env]
                  ELSE SetAsEnvironmentVariables(
                           [env EXCEPT ![b.name] = b.value], Tail(binds))

\* load_dotenv(path), line 14: the exception raised ("" if none) and
\* os.environ as it leaves it
load_dotenv(env, dotenv) ==
    IF DotenvReadRaises(dotenv) # ""
    THEN [raised |-> DotenvReadRaises(dotenv), env |-> env]
    ELSE SetAsEnvironmentVariables(env, dotenv.binds)

\* os.getenv, lines 16-17
CTA_API_KEY == environ.CTA_API_KEY
STOP_ID == environ.STOP_ID

ConfigMissing == ~Truthy(CTA_API_KEY) \/ ~Truthy(STOP_ID)

----------------------------------------------------------------------------
(* Dates and times *)

SecsPerMin == 60
SecsPerHour == 60 * SecsPerMin
SecsPerDay == 24 * SecsPerHour

\* tzinfo values: none (a naive datetime), ZoneInfo("America/Chicago"),
\* or the fixed offset a timestamp text carries
Naive == [kind |-> "naive", off |-> 0]
local_tz == [kind |-> "zone", off |-> 0]
FixedTz(o) == [kind |-> "fixed", off |-> o]

\* utcoffset() of America/Chicago in January: CST
ChicagoUtcOffset == -6 * SecsPerHour

\* dt.utcoffset(), in seconds
UtcOffset(dt) == IF dt.tz.kind = "zone" THEN ChicagoUtcOffset ELSE dt.tz.off

\* the instant an aware datetime denotes, in ticks
Instant(dt) == dt.civ - UtcOffset(dt) * SubSec

\* a - b for aware datetimes: a timedelta, in ticks
TimeDelta(a, b) == Instant(a) - Instant(b)

\* int(delta.total_seconds()): int() truncates toward zero
IntTotalSeconds(delta) ==
    IF delta >= 0 THEN delta \div SubSec ELSE -((-delta) \div SubSec)

\* dt.replace(tzinfo=tz): same wall-clock reading, other zone
ReplaceTzinfo(dt, tz) == [dt EXCEPT !.tz = tz]

\* dt.astimezone(): the same instant read in the host's system zone
AsTimezone(dt, host) ==
    [civ |-> Instant(dt) + host * SubSec, tz |-> FixedTz(host)]

\* "%02d"
Pad2(n) == IF n < 10 THEN "0" \o ToString(n) ELSE ToString(n)

\* dt.strftime("%Y-%m-%d %H:%M:%S"), for readings in January 2024
Strftime(dt) ==
    LET s   == dt.civ \div SubSec
        day == s \div SecsPerDay
        hh  == (s % SecsPerDay) \div SecsPerHour
        mm  == (s % SecsPerHour) \div SecsPerMin
        ss  == s % SecsPerMin
    IN  "2024-01-" \o Pad2(day + 1) \o " " \o Pad2(hh) \o ":" \o Pad2(mm)
            \o ":" \o Pad2(ss)

\* dt.strftime("%Z") of a datetime in America/Chicago in January
TzName(dt) == "CST"

\* The text of an "arrT" field is modelled by what dateutil reads in it:
\* kind "iso" with a wall-clock reading (seconds) and the offset it carries
\* (or none), kind "garbage" for a text that holds no date, kind "digits"
\* for a run of digits too long for a C long ("99999999999999999999"),
\* kind "none" for a missing or null field (arrival.get("arrT") is None).
IsoText(civSecs, tz) == [kind |-> "iso", civ |-> civSecs, tz |-> tz]
GarbageText == [kind |-> "garbage", civ |-> 0, tz |-> Naive]
DigitsText == [kind |-> "digits", civ |-> 0, tz |-> Naive]
NoText == [kind |-> "none", civ |-> 0, tz |-> Naive]

\* date_parser.parse(text), line 53: the exception it raises, "" if none
ParseRaises(text) ==
    CASE text.kind = "none"    -> "TypeError"
      [] text.kind = "garbage" -> "ParserError"
      [] text.kind = "digits"  -> "OverflowError"
      [] OTHER                 -> ""

\* a - b, line 57: datetime takes from a tzinfo only an offset strictly
\* between -24 h and 24 h, and raises ValueError on any other
SubtractRaises(a, b) ==
    IF \/ UtcOffset(a) <= -SecsPerDay \/ UtcOffset(a) >= SecsPerDay
       \/ UtcOffset(b) <= -SecsPerDay \/ UtcOffset(b) >= SecsPerDay
    THEN "ValueError:utcoffset" ELSE ""

\* date_parser.parse(text) on a text that parses
Parse(text) == [civ |-> text.civ * SubSec, tz |-> text.tz]

----------------------------------------------------------------------------
(* get_cta_train_times, lines 36-71 *)

\* the seconds left as they are
ClampSecondsNone(total_seconds) == total_seconds

\* the clamp of lines 59-60
ClampSeconds(total_seconds) == IF total_seconds < 0 THEN 0 ELSE total_seconds

\* the tzinfo given to a naive arrival time, lines 55-56
AssumeZone(arr_dt) ==
    IF arr_dt.tz.kind = "naive" THEN ReplaceTzinfo(arr_dt, local_tz) ELSE arr_dt

\* the text of the "arrival_time" field, line 65
ArrivalTimeText(arr_dt, host) == Strftime(AsTimezone(arr_dt, host))

\* the text of the "time_remaining" field, line 68
TimeRemaining(mins, secs) == ToString(mins) \o "m " \o ToString(secs) \o "s"

\* arrival.get("arrT"), line 52
ArrT(arrival) == Get(arrival.members, "arrT", NoText)

\* the exception one arrival raises in lines 52-57, "" if none:
\* arrival.get on an entry that is no dict, the parser, the subtraction
ArrivalRaises(arrival, now_local) ==
    IF GetRaises(arrival) # "" THEN GetRaises(arrival)
    ELSE IF ParseRaises(ArrT(arrival)) # "" THEN ParseRaises(ArrT(arrival))
    ELSE SubtractRaises(AssumeZone(Parse(ArrT(arrival))), now_local)

\* the record appended for one arrival whose timestamp parses, lines 52-69
ArrivalRecord(arrival, now_local, host) ==
    LET arr_dt        == AssumeZone(Parse(ArrT(arrival)))
        delta         == TimeDelta(arr_dt, now_local)
        total_seconds == ClampSeconds(IntTotalSeconds(delta))
        mins          == total_seconds \div SecsPerMin
        secs          == total_seconds % SecsPerMin
    IN  [route          |-> Get(arrival.members, "rt", PyNone),
         destination    |-> Get(arrival.members, "destNm", PyNone),
         arrival_time   |-> ArrivalTimeText(arr_dt, host),
         minutes_away   |-> mins,
         seconds_away   |-> secs,
         time_remaining |-> TimeRemaining(mins, secs)]

\* a loop that passes over an arrival whose timestamp does not parse
RECURSIVE ArrivalsLoopSkipping(_, _, _, _)
ArrivalsLoopSkipping(arrivals, times, now_local, host) ==
    IF arrivals = << >>
    THEN [raised |-> "", times |-> times]
    ELSE LET arrival == Head(arrivals)
         IN  ArrivalsLoopSkipping(Tail(arrivals),
                 IF ArrivalRaises(arrival, now_local) # ""
                 THEN times
                 ELSE Append(times, ArrivalRecord(arrival, now_local, host)),
                 now_local, host)

\* the loop of lines 51-69 over the arrivals left, with the list built so
\* far: the exception that leaves the loop ("" if none) and the list
RECURSIVE ArrivalsLoop(_, _, _, _)
ArrivalsLoop(arrivals, times, now_local, host) ==
    IF arrivals = << >>
    THEN [raised |-> "", times |-> times]
    ELSE LET arrival == Head(arrivals)
             exc     == ArrivalRaises(arrival, now_local)
         IN  IF exc # ""
             THEN [raised |-> exc, times |-> << >>]
             ELSE ArrivalsLoop(Tail(arrivals),
                               Append(times, ArrivalRecord(arrival, now_local, host)),
                               now_local, host)

\* a status that is never looked at
RaiseForStatusNever(status) == FALSE

\* resp.raise_for_status(), line 45: 4xx and 5xx raise
RaiseForStatus(status) == status >= 400 /\ status < 600

\* the lookup by subscript, body["ctatt"]["eta"], which raises on a
\* missing key
ArrivalsSubscript(body) ==
    IF GetRaises(body) # "" THEN [raised |-> "TypeError", eta |-> JArray(<< >>)]
    ELSE IF "ctatt" \notin DOMAIN body.members
    THEN [raised |-> "KeyError", eta |-> JArray(<< >>)]
    ELSE LET data == body.members.ctatt
         IN  IF GetRaises(data) # "" THEN [raised |-> "TypeError", eta |-> JArray(<< >>)]
             ELSE IF "eta" \notin DOMAIN data.members
             THEN [raised |-> "KeyError", eta |-> JArray(<< >>)]
             ELSE [raised |-> "", eta |-> data.members.eta]

\* arrivals of a decoded body, lines 46-47: the exception raised ("" if
\* none) and the value of "eta".  dict.get gives the default only for a
\* key that is not there; a body or a "ctatt" that is no dict has no get.
Arrivals(body) ==
    IF GetRaises(body) # ""
    THEN [raised |-> GetRaises(body), eta |-> JArray(<< >>)]
    ELSE LET data == Get(body.members, "ctatt", JObject(EmptyDict))
         IN  IF GetRaises(data) # ""
             THEN [raised |-> GetRaises(data), eta |-> JArray(<< >>)]
             ELSE [raised |-> "", eta |-> Get(data.members, "eta", JArray(<< >>))]

\* resp.json(), line 46: the exception it raises, "" if none.  The text
\* of a body is JSON ("json"), is not ("notjson"), is JSON nested deeper
\* than the interpreter recurses ("toodeep"), or is JSON with a number of
\* more digits than int() converts ("toolong").
JsonRaises(r) ==
    CASE r.text = "notjson" -> "JSONDecodeError"
      [] r.text = "toodeep" -> "RecursionError"
      [] r.text = "toolong" -> "ValueError:json"
      [] OTHER              -> ""

\* requests.get, line 44: the exception it raises, "" if none
RequestRaises(r) ==
    CASE r.kind = "timeout"   -> "Timeout"
      [] r.kind = "connerr"   -> "ConnectionError"
      [] r.kind = "redirects" -> "TooManyRedirects"
      [] OTHER                -> ""

\* A response of requests.get: a kind for which the call raises, or kind
\* "http" with a status and the text of a body, which decodes to body.
\* get_cta_train_times on the response r, with the clock reading now_local
\* on a host at offset host: the exception raised ("" if none), the list
\* returned, whether the clock was read, and the lines logged.
get_cta_train_times(r, now_local, host) ==
    LET requesting == <<"Requesting">>
        failed(exc) == [raised |-> exc, times |-> << >>, clock |-> FALSE,
                        logged |-> requesting]
        late(exc)   == [raised |-> exc, times |-> << >>, clock |-> TRUE,
                        logged |-> requesting]
    IN  CASE RequestRaises(r) # ""      -> failed(RequestRaises(r))
          [] RaiseForStatus(r.status)   -> failed("HTTPError")
          [] JsonRaises(r) # ""         -> failed(JsonRaises(r))
          [] Arrivals(r.body).raised # "" -> failed(Arrivals(r.body).raised)
          [] IterRaises(Arrivals(r.body).eta) # "" ->
               late(IterRaises(Arrivals(r.body).eta))
          [] OTHER ->
               LET loop == ArrivalsLoop(Iter(Arrivals(r.body).eta), << >>,
                                        now_local, host)
               IN  IF loop.raised # ""
                   THEN late(loop.raised)
                   ELSE [raised |-> "", times |-> loop.times, clock |-> TRUE,
                         logged |-> Append(requesting,
                             "Fetched " \o ToString(Len(loop.times)) \o " arrival entries")]

----------------------------------------------------------------------------
(* write_html, lines 75-124 *)

\* the default of the parameter refresh_interval, line 75
RefreshInterval == 2

\* one table row, lines 79-84: the fragments of the f-string, in order
RowText(t) ==
    << "<tr>",
       "<td>", Str(t.route), "</td>",
       "<td>", Str(t.destination), "</td>",
       "<td>", t.arrival_time, "</td>",
       "<td>", t.time_remaining, "</td>",
       "</tr>" >>

\* the row written when there is nothing to show, line 86
PlaceholderRow == << "<tr><td colspan=4>No data</td></tr>" >>

\* the rows joined last record first
JoinedRowsReversed(train_times) ==
    [i \in 1..Len(train_times) |-> RowText(train_times[Len(train_times) + 1 - i])]

\* "\n".join(...) of lines 78-85: one line per record, in order
JoinedRows(train_times) ==
    [i \in 1..Len(train_times) |-> RowText(train_times[i])]

\* rows without the fallback of line 86
RowsNoFallback(train_times) == JoinedRows(train_times)

\* rows that end with the placeholder whatever the records
RowsWithPlaceholder(train_times) == Append(JoinedRows(train_times), PlaceholderRow)

\* rows, lines 78-86: the joined rows, or the placeholder when the joined
\* text is empty
Rows(train_times) ==
    LET joined == JoinedRows(train_times)
    IN  IF joined = << >> THEN <<PlaceholderRow>> ELSE joined

TbodyOpen == << "    <tbody>" >>
TbodyClose == << "    </tbody>" >>

\* the lines of the template before {rows}, lines 88-112 (the rules of the
\* style block, which are fixed text, are left out)
DocHead(refresh_interval, stop, now_text) ==
    << << "<!doctype html>" >>,
       << "<html lang=\"en\">" >>,
       << "<head>" >>,
       << "  <meta charset=\"utf-8\">" >>,
       << "    <meta http-equiv=\"refresh\" content=\"", ToString(refresh_interval),
          "\"> <!-- auto-refresh every ", ToString(refresh_interval), "s -->" >>,
       << "  <title>Chicago Brown Line Stop</title>" >>,
       << "</head>" >>,
       << "<body>" >>,
       << "  <h1>Chicago Brown Line - Stop ", Str(stop), "</h1>" >>,
       << "  <p>Last updated: ", now_text, "</p>" >>,
       << "  <table>" >>,
       << "    <thead>" >>,
       << "      <tr>" >>,
       << "        <th>Route</th><th>Destination</th><th>ETA</th><th>Time Remaining</th>" >>,
       << "      </tr>" >>,
       << "    </thead>" >>,
       TbodyOpen >>

\* the lines of the template after {rows}, lines 114-117
DocTail ==
    << TbodyClose, << "  </table>" >>, << "</body>" >>, << "</html>" >> >>

\* the indentation the template puts before {rows}, line 113: it reaches
\* the first line of rows only
RowIndent == "      "

IndentFirst(lines) ==
    [i \in 1..Len(lines) |-> IF i = 1 THEN <<RowIndent>> \o lines[i] ELSE lines[i]]

\* html, lines 76-118
write_html(train_times, refresh_interval, now_local, stop) ==
    DocHead(refresh_interval, stop, Strftime(now_local) \o " " \o TzName(now_local))
        \o IndentFirst(Rows(train_times))
        \o DocTail

\* A file is [exists, content, partial]: content holds the lines that are
\* there whole, newline included; partial is what follows the last newline:
\* the fragments that are there whole (frags) and, when the file ends
\* inside a fragment, that fragment (torn, else "").  How many characters
\* of a torn fragment are there is not recorded: at least one, not all.
NoPartial == [frags |-> << >>, torn |-> ""]

\* open(out_path, "a"): creates the file or keeps what it holds
OpenForAppending(f) ==
    [exists |-> TRUE, content |-> f.content, partial |-> NoPartial]

\* open(out_path, "w"), line 122: creates the file or truncates it
OpenForWriting(f) == [exists |-> TRUE, content |-> << >>, partial |-> NoPartial]

\* the places inside line k+1 of doc where a write can stop: after any
\* number of its fragments (after all of them the newline is still
\* missing), or inside a fragment of two characters or more
CutsInLine(doc, k) ==
    LET line == doc[k + 1]
    IN  { [lines |-> k, frags |-> j, torn |-> FALSE] : j \in 0..Len(line) }
        \cup { [lines |-> k, frags |-> j, torn |-> TRUE] :
                 j \in { i \in 0..(Len(line) - 1) : Len(line[i + 1]) >= 2 } }

\* the cut of a write that got all of doc out
FullCut(doc) == [lines |-> Len(doc), frags |-> 0, torn |-> FALSE]

\* the places where a write of doc can stop: at any character
Cuts(doc) == {FullCut(doc)} \cup UNION { CutsInLine(doc, k) : k \in 0..(Len(doc) - 1) }

\* what of doc is out at a cut
Written(doc, cut) ==
    [content |-> SubSeq(doc, 1, cut.lines),
     partial |-> IF cut.lines = Len(doc)
                 THEN NoPartial
                 ELSE [frags |-> SubSeq(doc[cut.lines + 1], 1, cut.frags),
                       torn  |-> IF cut.torn
                                 THEN doc[cut.lines + 1][cut.frags + 1]
                                 ELSE ""]]

\* a write over the old content, which it does not cut
WriteFileInPlace(f, doc, cut) ==
    LET w == Written(doc, cut)
    IN  [exists  |-> TRUE,
         content |-> w.content \o SubSeq(f.content, Len(w.content) + 1, Len(f.content)),
         partial |-> w.partial]

\* the file after f.write(html) stopped at a cut of the document, lines
\* 122-123
WriteFile(f, doc, cut) ==
    LET opened == OpenForWriting(f)
        w      == Written(doc, cut)
    IN  [exists  |-> TRUE,
         content |-> opened.content \o w.content,
         partial |-> w.partial]

\* the line logged at line 124
WroteLine(train_times) == "Wrote " \o ToString(Len(train_times)) \o " rows"

----------------------------------------------------------------------------
(* What the environment can hand to the process *)

Seqs(S, n) == UNION {[1..m -> S] : m \in 0..n}

\* the environment the process is started with, and the bindings of a .env
Environs ==
    [CTA_API_KEY : {PyNone, "", "key"}, STOP_ID : {PyNone, "", "30249"}]

\* the values a .env binds to a name: none, empty, a good one, one with a
\* NUL in it
DotEnvValues(name) ==
    {PyNone, "", IF name = "CTA_API_KEY" THEN "key" ELSE "30249", NulValue}

\* the bindings of a .env: the two names, each at most once, in any order
DotEnvBindings ==
    LET one(n) == { [name |-> n, value |-> v] : v \in DotEnvValues(n) }
    IN  {<< >>}
        \cup { <<b>> : b \in one("CTA_API_KEY") \cup one("STOP_ID") }
        \cup { <<a, b>> : a \in one("CTA_API_KEY"), b \in one("STOP_ID") }
        \cup { <<b, a>> : a \in one("CTA_API_KEY"), b \in one("STOP_ID") }

DotEnvFiles ==
    {DotEnvMissing, DotEnvUnreadable, DotEnvUndecodable}
    \cup { DotEnvOf(b) : b \in DotEnvBindings }

\* system time zones of the host: Chicago's, UTC, UTC+9
HostZones == {ChicagoUtcOffset, 0, 9 * SecsPerHour}

\* 10:00:00 on 2024-01-01, the second in which the clock is read
ClockBase == 10 * SecsPerHour

\* datetime.now(local_tz), line 50
Nows == {[civ |-> ClockBase * SubSec + f, tz |-> local_tz] : f \in 0..(SubSec - 1)}

\* datetime.now(local_tz) at line 77: in the second of the reading of
\* line 50, or in the next one
RenderNows(now_local) == {[now_local EXCEPT !.civ = @ + d] : d \in {0, SubSec}}

\* "arrT" texts that give a record: 10:05:00 without a zone,
\* 09:59:00-06:00 (already passed), 16:01:01+00:00 (10:01:01 in Chicago)
ArrTexts ==
    { IsoText(ClockBase + 5 * SecsPerMin, Naive),
      IsoText(ClockBase - SecsPerMin, FixedTz(ChicagoUtcOffset)),
      IsoText(ClockBase + 6 * SecsPerHour + SecsPerMin + 1, FixedTz(0)) }

\* "arrT" texts that give none: a text that is no date, a long run of
\* digits, 10:05:00+99:00
BadArrTexts ==
    { GarbageText, DigitsText,
      IsoText(ClockBase + 5 * SecsPerMin, FixedTz(99 * SecsPerHour)) }

\* items of the "eta" array: entries, where "rt" and "arrT" may be
\* missing, and an item that is no entry (null)
Entries ==
    { JObject([rt |-> "Brn", destNm |-> "Kimball", arrT |-> t]) :
          t \in ArrTexts \cup BadArrTexts }
    \cup { JObject([destNm |-> "Loop",
                    arrT |-> IsoText(ClockBase - SecsPerMin, FixedTz(ChicagoUtcOffset))]),
           JObject([rt |-> "Brn", destNm |-> "Kimball"]),
           JNull }

\* values of "ctatt" that are no dict: null, a list
NoDicts == { JNull, JArray(<< >>) }

\* values of "eta" that are no list: null, a number, the empty and a
\* non-empty str, the empty and a non-empty dict
NoLists ==
    { JNull, JNumber(0), JString(<< >>), JString(<<"x">>), JObject(EmptyDict),
      JObject([n |-> JNull]) }

\* decoded JSON bodies: no dict, no "ctatt", a "ctatt" that is no dict, no
\* "eta", an "eta" that is no list, or an "eta" array
Bodies ==
    NoDicts
    \cup { JObject(EmptyDict), JObject([ctatt |-> JObject(EmptyDict)]) }
    \cup { JObject([ctatt |-> c]) : c \in NoDicts }
    \cup { JObject([ctatt |-> JObject([eta |-> e])]) : e \in NoLists }
    \cup { JObject([ctatt |-> JObject([eta |-> JArray(a)])]) :
              a \in Seqs(Entries, MaxEta) }

NoResp == [kind |-> "none", status |-> 0, text |-> "", body |-> JObject(EmptyDict)]

\* HTTP statuses that requests.get hands back: OK, Multiple Choices (a 3xx
\* that requests does not follow), Not Found, Internal Server Error
Statuses == {200, 300, 404, 500}

\* texts of a body that json() does not decode
JsonFailures == {"notjson", "toodeep", "toolong"}

Responses ==
    { [kind |-> k, status |-> 0, text |-> "", body |-> JObject(EmptyDict)] :
          k \in {"timeout", "connerr", "redirects"} }
    \cup { [kind |-> "http", status |-> st, text |-> t, body |-> JObject(EmptyDict)] :
          st \in Statuses, t \in JsonFailures }
    \cup { [kind |-> "http", status |-> st, text |-> "json", body |-> b] :
          st \in Statuses, b \in Bodies }

\* the responses of the invocations that follow one another: every failure
\* of the request and of json(), a body with a null "ctatt", and bodies
\* with no, one and two arrivals, with a bad timestamp and with none
FewBodies ==
    { JObject(EmptyDict),
      JObject([ctatt |-> JNull]),
      JObject([ctatt |-> JObject([eta |-> JArray(
          <<JObject([rt |-> "Brn", destNm |-> "Kimball",
                     arrT |-> IsoText(ClockBase + 5 * SecsPerMin, Naive)])>>)])]),
      JObject([ctatt |-> JObject([eta |-> JArray(
          <<JObject([rt |-> "Brn", destNm |-> "Kimball",
                     arrT |-> IsoText(ClockBase + 5 * SecsPerMin, Naive)]),
            JObject([destNm |-> "Loop",
                     arrT |-> IsoText(ClockBase - SecsPerMin, FixedTz(ChicagoUtcOffset))])>>)])]),
      JObject([ctatt |-> JObject([eta |-> JArray(
          <<JObject([rt |-> "Brn", destNm |-> "Kimball",
                     arrT |-> IsoText(ClockBase + 5 * SecsPerMin, Naive)]),
            JObject([rt |-> "Brn", destNm |-> "Kimball", arrT |-> GarbageText])>>)])]),
      JObject([ctatt |-> JObject([eta |-> JArray(
          <<JObject([rt |-> "Brn", destNm |-> "Kimball"])>>)])]) }

FewResponses ==
    { r \in Responses : r.text # "json" }
    \cup { [kind |-> "http", status |-> 200, text |-> "json", body |-> b] :
              b \in FewBodies }
    \cup { [kind |-> "http", status |-> st, text |-> "json", body |-> JObject(EmptyDict)] :
              st \in Statuses }

\* the settings of the invocations that follow one another: both there,
\* the stop identifier empty, the key absent, both absent
FewEnvirons ==
    { e \in Environs : \/ e.CTA_API_KEY = "key" /\ e.STOP_ID \in {"30249", ""}
                       \/ e.CTA_API_KEY = PyNone /\ e.STOP_ID \in {"30249", PyNone} }

\* the .env files of the invocations that follow one another: none, one
\* that cannot be read, one that cannot be decoded, one that binds the key
\* and then the stop identifier to a value with a NUL
FewDotEnvFiles ==
    {DotEnvMissing, DotEnvUnreadable, DotEnvUndecodable,
     DotEnvOf(<<[name |-> "CTA_API_KEY", value |-> "key"],
                [name |-> "STOP_ID", value |-> NulValue]>>)}

NoFile == [exists |-> FALSE, content |-> << >>, partial |-> NoPartial]

----------------------------------------------------------------------------
(* The process *)

Init ==
    /\ pc = "startup"
    /\ outcome = "running"
    /\ environ \in Environs
    /\ hostTz \in HostZones
    /\ resp = NoResp
    /\ nowFetch = [civ |-> ClockBase * SubSec, tz |-> local_tz]
    /\ trains = << >>
    /\ html = << >>
    /\ file = NoFile
    /\ fileBefore = NoFile
    /\ dirExists \in BOOLEAN
    /\ netCalls = 0
    /\ renders = 0
    /\ log = << >>

\* lines 12-32, the module load: load_dotenv reads the .env file into the
\* environment and raises when it cannot, leaving what it had put there; the settings are read and
\* checked; then logging is set up, where logging.FileHandler(LOG_FILE)
\* opens fetch_cta.log and raises when it cannot
Startup(dotenvs) ==
    /\ pc = "startup"
    /\ \E dotenv \in dotenvs :
         LET loaded == load_dotenv(environ, dotenv)
         IN  /\ environ' = loaded.env
             /\ IF loaded.raised # ""
                THEN pc' = "exit" /\ outcome' = loaded.raised
                ELSE IF ConfigMissing'
                     THEN pc' = "exit" /\ outcome' = "RuntimeError"
                     ELSE \/ pc' = "exit" /\ outcome' = "OSError:logfile"
                          \/ pc' = "main" /\ outcome' = outcome
    /\ UNCHANGED <<hostTz, resp, nowFetch, trains, html, file,
                   fileBefore, dirExists, netCalls, renders, log>>

\* line 128: trains = get_cta_train_times(CTA_API_KEY, STOP_ID)
CallGetCtaTrainTimes(responses) ==
    /\ pc = "main"
    /\ \E r \in responses, now_local \in Nows :
         LET res == get_cta_train_times(r, now_local, hostTz)
         IN  /\ resp' = r
             /\ netCalls' = netCalls + 1
             /\ nowFetch' = IF res.clock THEN now_local ELSE nowFetch
             /\ log' = log \o res.logged
             /\ IF res.raised = ""
                THEN trains' = res.times /\ pc' = "fetched" /\ outcome' = outcome
                ELSE trains' = trains /\ pc' = "exit" /\ outcome' = res.raised
    /\ UNCHANGED <<environ, hostTz, html, file, fileBefore, dirExists, renders>>

\* line 129: write_html(trains).  os.makedirs can fail when www/ is not
\* there yet, open can fail, and the write (or the flush when the file is
\* closed) can fail after any number of characters went out.
CallWriteHtml ==
    /\ pc = "fetched"
    /\ \E now_local \in RenderNows(nowFetch) :
         LET doc == write_html(trains, RefreshInterval, now_local, STOP_ID)
         IN  /\ html' = doc
             /\ renders' = renders + 1
             /\ pc' = "exit"
             /\ \/ /\ ~dirExists
                   /\ outcome' = "OSError:makedirs"
                   /\ UNCHANGED <<dirExists, file, log>>
                \/ /\ outcome' = "OSError:open"
                   /\ dirExists' = TRUE
                   /\ UNCHANGED <<file, log>>
                \/ /\ \E cut \in Cuts(doc) : file' = WriteFile(file, doc, cut)
                   /\ outcome' = "OSError:write"
                   /\ dirExists' = TRUE
                   /\ UNCHANGED log
                \/ /\ file' = WriteFile(file, doc, FullCut(doc))
                   /\ outcome' = "ok"
                   /\ dirExists' = TRUE
                   /\ log' = Append(log, WroteLine(trains))
    /\ UNCHANGED <<environ, hostTz, resp, nowFetch, trains, fileBefore, netCalls>>

\* the external scheduler starts the process again: nothing but the file
\* system is carried over
Reinvoke ==
    /\ pc = "exit"
    /\ pc' = "startup"
    /\ outcome' = "running"
    /\ environ' \in FewEnvirons
    /\ resp' = NoResp
    /\ nowFetch' = [civ |-> ClockBase * SubSec, tz |-> local_tz]
    /\ trains' = << >>
    /\ html' = << >>
    /\ fileBefore' = file
    /\ netCalls' = 0
    /\ renders' = 0
    /\ log' = << >>
    /\ UNCHANGED <<hostTz, file, dirExists>>

\* one invocation of the process, over all the responses
Next == Startup(DotEnvFiles) \/ CallGetCtaTrainTimes(Responses) \/ CallWriteHtml

Spec == Init /\ [][Next]_vars

\* invocation after invocation on a host in UTC, over a few settings,
\* .env files and responses
InitRuns == Init /\ hostTz = 0 /\ environ \in FewEnvirons

NextRuns ==
    \/ Startup(FewDotEnvFiles)
    \/ CallGetCtaTrainTimes(FewResponses)
    \/ CallWriteHtml
    \/ Reinvoke

SpecRuns == InitRuns /\ [][NextRuns]_vars

----------------------------------------------------------------------------
(* Reading a document back, and the vocabulary of the properties *)

Max(a, b) == IF a >= b THEN a ELSE b

Range(f) == {f[i] : i \in DOMAIN f}

\* the first line of doc equal to line
LineIndex(doc, line) == CHOOSE i \in 1..Len(doc) : doc[i] = line

\* the lines of a complete document between <tbody> and </tbody>
TableBody(doc) ==
    SubSeq(doc, LineIndex(doc, TbodyOpen) + 1, LineIndex(doc, TbodyClose) - 1)

\* the contents of the <td> cells of a line, left to right
CellsOf(line) ==
    LET at == SelectSeq([i \in 1..Len(line) |-> i],
                        LAMBDA i : i < Len(line) /\ line[i] = "<td>")
    IN  [j \in 1..Len(at) |-> line[at[j] + 1]]

\* a table row of four plain cells
IsDataRow(line) ==
    "<tr>" \in Range(line) /\ "</tr>" \in Range(line) /\ Len(CellsOf(line)) = 4

\* the row that reads "No data" over all four columns
IsPlaceholderRow(line) == "<tr><td colspan=4>No data</td></tr>" \in Range(line)

\* the instant of dt read on the wall clock of the zone tz
AsTimezoneOf(dt, tz) ==
    LET probe == [civ |-> 0, tz |-> tz]
    IN  [civ |-> Instant(dt) + UtcOffset(probe) * SubSec, tz |-> tz]

\* the four texts a record shows
ShownFields(t) ==
    <<Str(t.route), Str(t.destination), t.arrival_time, t.time_remaining>>

\* get_cta_train_times has returned in this process
FetchReturned == pc = "fetched" \/ (pc = "exit" /\ renders = 1)

\* a response whose body was decoded: no transport failure, valid JSON
JsonDelivered(r) == r.kind = "http" /\ r.status \notin 400..599 /\ r.text = "json"

\* v is a JSON object with a member k
HasMember(v, k) == v.type = "dict" /\ k \in DOMAIN v.members

\* the body has a "ctatt" object with an "eta" array in it
HasEtaArray(body) ==
    /\ HasMember(body, "ctatt")
    /\ HasMember(body.members.ctatt, "eta")
    /\ body.members.ctatt.members.eta.type = "list"

\* the items of the "eta" array of the response of this process
EtaOf(r) ==
    IF HasEtaArray(r.body) THEN r.body.members.ctatt.members.eta.items ELSE << >>

\* the body is an object in which the key "ctatt" is not there, or in
\* which "ctatt" is an object where the key "eta" is not there
KeyAbsent(body) ==
    /\ body.type = "dict"
    /\ \/ "ctatt" \notin DOMAIN body.members
       \/ /\ body.members.ctatt.type = "dict"
          /\ "eta" \notin DOMAIN body.members.ctatt.members

\* the body is an object whose "ctatt" is there and is null
CtattNull(body) == HasMember(body, "ctatt") /\ body.members.ctatt.type = "NoneType"

\* the body is an object whose "ctatt" is an object whose "eta" is there
\* and is null
EtaNull(body) ==
    /\ HasMember(body, "ctatt")
    /\ HasMember(body.members.ctatt, "eta")
    /\ body.members.ctatt.members.eta.type = "NoneType"

\* the body is an object without a "ctatt" sub-object or without an "eta"
\* array, be it that the key is not there or that null stands in its place
LacksArrivals(body) == KeyAbsent(body) \/ CtattNull(body) \/ EtaNull(body)

\* the timestamp of an entry is missing or is a text no date is read in
Unparseable(arrival) ==
    /\ arrival.type = "dict"
    /\ \/ "arrT" \notin DOMAIN arrival.members
       \/ arrival.members.arrT.kind \in {"none", "garbage", "digits"}

\* the error of the parser on an entry with such a timestamp
ParserErrorOf(arrival) ==
    IF "arrT" \notin DOMAIN arrival.members THEN "TypeError"
    ELSE CASE arrival.members.arrT.kind = "none"    -> "TypeError"
           [] arrival.members.arrT.kind = "garbage" -> "ParserError"
           [] arrival.members.arrT.kind = "digits"  -> "OverflowError"

\* an entry the loop makes a record of: an object whose timestamp is a
\* date with no offset or one within a day
Sound(arrival) ==
    /\ arrival.type = "dict"
    /\ "arrT" \in DOMAIN arrival.members
    /\ arrival.members.arrT.kind = "iso"
    /\ arrival.members.arrT.tz.off \in (1 - SecsPerDay)..(SecsPerDay - 1)

\* errors raised inside get_cta_train_times
FetchErrors ==
    {"Timeout", "ConnectionError", "TooManyRedirects", "HTTPError",
     "JSONDecodeError", "RecursionError", "ValueError:json", "AttributeError",
     "TypeError", "ParserError", "OverflowError", "ValueError:utcoffset"}

\* errors raised by write_html
RenderErrors == {"OSError:makedirs", "OSError:open", "OSError:write"}

\* int((parsed arrival time - now).total_seconds()) of one entry
TotalSecondsOf(arrival) ==
    IntTotalSeconds(TimeDelta(AssumeZone(Parse(ArrT(arrival))), nowFetch))

\* a setting that is absent or empty
Absent(v) == v = PyNone \/ v = ""

IsPrefix(p, d) == Len(p) <= Len(d) /\ p = SubSeq(d, 1, Len(p))

\* the file holds all of doc and nothing else
HoldsAll(f, doc) == f = [exists |-> TRUE, content |-> doc, partial |-> NoPartial]

\* the file holds a prefix of the text of doc and nothing else: whole
\* lines of it, then whole fragments of the next line, then at most a
\* part of the fragment after these
HoldsPrefix(f, doc) ==
    /\ f.exists
    /\ IsPrefix(f.content, doc)
    /\ \/ f.partial = NoPartial
       \/ /\ Len(f.content) < Len(doc)
          /\ LET line == doc[Len(f.content) + 1]
             IN  /\ IsPrefix(f.partial.frags, line)
                 /\ f.partial.torn # "" =>
                      /\ Len(f.partial.frags) < Len(line)
                      /\ f.partial.torn = line[Len(f.partial.frags) + 1]

\* the process ended on the transport: timeout, connection failure, status
TransportErrors == {"Timeout", "ConnectionError", "HTTPError"}

----------------------------------------------------------------------------
(* Properties *)

\* C1: every record returned by get_cta_train_times has minutes_away >= 0,
\* seconds_away in 0..59 and minutes_away*60 + seconds_away equal to
\* max(total_seconds, 0), total_seconds being the whole seconds of (parsed
\* arrival - now); an arrival earlier than now gives 0 and 0 ("0m 0s").
C1_CountdownSplit ==
    FetchReturned =>
        /\ Len(trains) = Len(EtaOf(resp))
        /\ \A i \in 1..Len(trains) :
             LET total == TotalSecondsOf(EtaOf(resp)[i])
                 t     == trains[i]
             IN  /\ t.minutes_away >= 0
                 /\ t.seconds_away \in 0..59
                 /\ t.minutes_away * 60 + t.seconds_away = Max(total, 0)
                 /\ total < 0 =>
                      /\ t.minutes_away = 0
                      /\ t.seconds_away = 0
                      /\ t.time_remaining = "0m 0s"

\* C1 happens: a returned list holds an arrival a minute in the past and
\* an arrival with seconds left over
C1_Witness ==
    /\ FetchReturned
    /\ \E i, j \in 1..Len(trains) :
         /\ TotalSecondsOf(EtaOf(resp)[i]) <= -60
         /\ trains[j].seconds_away = 59

\* C2 as stated: when a process has ended, whatever the error, the output
\* file is the complete page of this run or exactly what it was before.
C2_AllOrNothing ==
    pc = "exit" =>
        \/ file = fileBefore
        \/ renders = 1 /\ HoldsAll(file, html)

\* C2 amended: a run without error leaves the complete page of this run;
\* an error of the write itself leaves a prefix of the text of the page,
\* which may be empty and may end inside a line; a run that ends in any
\* other way, whatever the error and wherever it is raised, leaves the
\* file as it was.
C2_AllOrNothingUnlessWriteFails ==
    pc = "exit" =>
        /\ outcome = "ok" => renders = 1 /\ HoldsAll(file, html)
        /\ outcome = "OSError:write" => renders = 1 /\ HoldsPrefix(file, html)
        /\ outcome \notin {"ok", "OSError:write"} => file = fileBefore

\* C2 happens: over the page of an earlier run the write fails inside a
\* cell of a data row
C2_Witness ==
    /\ pc = "exit"
    /\ outcome = "OSError:write"
    /\ fileBefore.exists
    /\ TbodyClose \in Range(fileBefore.content)
    /\ TbodyOpen \in Range(file.content)
    /\ file.partial.torn = "Kimball"
    /\ file # fileBefore

\* C3 as stated: after a timeout, a connection failure or any status that
\* is not a success (2xx), the process has ended on an error of the fetch
\* before any render: write_html was not called and the output file is as
\* it was.  (Which error ended it is left open here; the claim names a
\* transport error, which asks for more.)
C3_TransportAbort ==
    (netCalls = 1 /\ (\/ resp.kind \in {"timeout", "connerr"}
                      \/ resp.kind = "http" /\ resp.status \notin 200..299)) =>
        /\ pc = "exit"
        /\ outcome \in FetchErrors
        /\ renders = 0
        /\ file = fileBefore

\* C3 amended: the same for a timeout, a connection failure or a 4xx or
\* 5xx status, the statuses raise_for_status raises on.
C3_TransportAbort4xx5xx ==
    (netCalls = 1 /\ (\/ resp.kind \in {"timeout", "connerr"}
                      \/ resp.kind = "http" /\ resp.status \in 400..599)) =>
        /\ pc = "exit"
        /\ outcome \in TransportErrors
        /\ renders = 0
        /\ html = << >>
        /\ file = fileBefore

\* C3 happens: a status 500 ends a process that found a page of an
\* earlier run
C3_Witness ==
    /\ pc = "exit"
    /\ resp.kind = "http" /\ resp.status = 500 /\ resp.text = "json"
    /\ outcome = "HTTPError"
    /\ fileBefore.exists

\* C4: with the API key or the stop identifier absent or empty in the
\* environment (as load_dotenv left it, be it that it returned or that it
\* raised), the process ends at the module load with no network call, no
\* fetch, no render and the output file as it was: on the configuration
\* check when load_dotenv returned, on the error of load_dotenv otherwise.
C4_ConfigAbort ==
    (Absent(environ.CTA_API_KEY) \/ Absent(environ.STOP_ID)) =>
        /\ pc \in {"startup", "exit"}
        /\ pc = "exit" =>
             outcome \in {"RuntimeError", "PermissionError", "UnicodeDecodeError",
                          "ValueError:load_dotenv"}
        /\ netCalls = 0
        /\ renders = 0
        /\ log = << >>
        /\ file = fileBefore

\* C4 happens: a process with an empty stop identifier has ended beside
\* the page of an earlier run
C4_Witness ==
    /\ pc = "exit"
    /\ outcome = "RuntimeError"
    /\ environ.CTA_API_KEY = "key"
    /\ environ.STOP_ID = ""
    /\ fileBefore.exists

\* C5: for N >= 1 records the table body of the written document has
\* exactly N rows, the i-th showing route, destination, arrival_time and
\* time_remaining of the i-th record, and no placeholder row.
C5_RowsInOrder ==
    (pc = "exit" /\ outcome = "ok" /\ Len(trains) >= 1) =>
        LET body == TableBody(file.content)
        IN  /\ Len(body) = Len(trains)
            /\ \A i \in 1..Len(body) :
                 /\ IsDataRow(body[i])
                 /\ ~IsPlaceholderRow(body[i])
                 /\ CellsOf(body[i]) = ShownFields(trains[i])

\* C5 happens: a page was written from two records that differ, one of
\* them without a route
C5_Witness ==
    /\ pc = "exit" /\ outcome = "ok"
    /\ Len(trains) = MaxEta
    /\ trains[1].route = PyNone
    /\ ShownFields(trains[1]) # ShownFields(trains[Len(trains)])

\* C6: for an empty record sequence the table body is exactly one
\* placeholder row and no data row; for a non-empty one there is no
\* placeholder row.
C6_PlaceholderIffEmpty ==
    (pc = "exit" /\ outcome = "ok") =>
        LET body == TableBody(file.content)
        IN  /\ trains = << >> =>
                 /\ Len(body) = 1
                 /\ IsPlaceholderRow(body[1])
                 /\ ~IsDataRow(body[1])
            /\ trains # << >> => \A i \in 1..Len(body) : ~IsPlaceholderRow(body[i])

\* C6 happens: a page was written from the empty "eta" array
C6_Witness ==
    /\ pc = "exit" /\ outcome = "ok"
    /\ HasEtaArray(resp.body)
    /\ trains = << >>
    /\ Len(TableBody(file.content)) = 1

\* C7 as stated: when the decoded body is an object without a "ctatt"
\* sub-object or without an "eta" array, get_cta_train_times returns the
\* empty list without an error, and the page the run writes has the
\* placeholder row in its table body.  (That the run writes the page is
\* asked here only of a run the file system does not fail; the claim
\* asks it of every run.)
C7_MissingArrivalsIsEmpty ==
    (netCalls = 1 /\ JsonDelivered(resp) /\ LacksArrivals(resp.body)) =>
        /\ FetchReturned
        /\ trains = << >>
        /\ outcome \in {"running", "ok"} \cup RenderErrors
        /\ (pc = "exit" /\ outcome = "ok") =>
             /\ Len(TableBody(file.content)) = 1
             /\ IsPlaceholderRow(TableBody(file.content)[1])

\* C7 amended: when the decoded body is an object in which the key "ctatt"
\* is not there, or in which "ctatt" is an object where the key "eta" is
\* not there, get_cta_train_times returns the empty list without an error,
\* write_html is called with it and builds a page whose table body is the
\* placeholder row, and the run ends with this page in the file unless
\* the file system fails it (makedirs, open or write).  When null stands
\* for "ctatt", the fetch raises AttributeError; when null stands for
\* "eta", it raises TypeError; either ends the run with no render and the
\* file as it was.
C7_AbsentKeyIsEmptyNullRaises ==
    (netCalls = 1 /\ JsonDelivered(resp)) =>
        /\ KeyAbsent(resp.body) =>
             /\ FetchReturned
             /\ trains = << >>
             /\ Len(log) >= 2 /\ log[2] = "Fetched 0 arrival entries"
             /\ outcome \in {"running", "ok"} \cup RenderErrors
             /\ pc = "exit" =>
                  /\ renders = 1
                  /\ Len(TableBody(html)) = 1
                  /\ IsPlaceholderRow(TableBody(html)[1])
                  /\ outcome = "ok" => HoldsAll(file, html)
        /\ (CtattNull(resp.body) \/ EtaNull(resp.body)) =>
             /\ pc = "exit"
             /\ outcome = (IF CtattNull(resp.body) THEN "AttributeError"
                                                   ELSE "TypeError")
             /\ trains = << >>
             /\ renders = 0
             /\ html = << >>
             /\ file = fileBefore

\* C7 happens: a page with the placeholder row was written after a body
\* {"ctatt": {}}
C7_Witness ==
    /\ pc = "exit" /\ outcome = "ok"
    /\ JsonDelivered(resp)
    /\ HasMember(resp.body, "ctatt")
    /\ KeyAbsent(resp.body)
    /\ HoldsAll(file, html)
    /\ IsPlaceholderRow(TableBody(file.content)[1])

\* C8: after a run without error the output file is the page of this
\* run's records and nothing else: its rows are the rows of these records,
\* whatever the file held before, also when that was longer.
C8_OverwritesCompletely ==
    (pc = "exit" /\ outcome = "ok") =>
        LET shown == SelectSeq(file.content, IsDataRow)
        IN  /\ HoldsAll(file, html)
            /\ Len(shown) = Len(trains)
            /\ \A i \in 1..Len(shown) : CellsOf(shown[i]) = ShownFields(trains[i])
            /\ Len(SelectSeq(file.content, IsPlaceholderRow))
                 = (IF trains = << >> THEN 1 ELSE 0)
            /\ Len(SelectSeq(file.content, LAMBDA l : l = TbodyClose)) = 1

\* C8 happens: a page with no record replaced a complete page of two rows
C8_Witness ==
    /\ pc = "exit" /\ outcome = "ok"
    /\ trains = << >>
    /\ Len(SelectSeq(fileBefore.content, IsDataRow)) = 2
    /\ TbodyClose \in Range(fileBefore.content)

\* C9: when the timestamp of any one entry of the "eta" array does not
\* parse or is missing, get_cta_train_times raises and returns no record,
\* also none of the entries before it; the process ends on that error,
\* logs no count and renders nothing.  When the entries before the first
\* such entry are sound, the error is the one of the parser on it.
C9_BadTimestampAborts ==
    (netCalls = 1 /\ JsonDelivered(resp)
       /\ \E i \in 1..Len(EtaOf(resp)) : Unparseable(EtaOf(resp)[i])) =>
        LET eta   == EtaOf(resp)
            first == CHOOSE i \in 1..Len(eta) :
                         /\ Unparseable(eta[i])
                         /\ \A j \in 1..(i - 1) : ~Unparseable(eta[j])
        IN  /\ pc = "exit"
            /\ outcome \in {"TypeError", "ParserError", "OverflowError",
                             "AttributeError", "ValueError:utcoffset"}
            /\ (\A j \in 1..(first - 1) : Sound(eta[j])) =>
                 outcome = ParserErrorOf(eta[first])
            /\ trains = << >>
            /\ log = <<"Requesting">>
            /\ renders = 0
            /\ html = << >>
            /\ file = fileBefore

\* C9 happens: the last of several entries has no timestamp and the ones
\* before it parse
C9_Witness ==
    /\ pc = "exit"
    /\ JsonDelivered(resp)
    /\ Len(EtaOf(resp)) = MaxEta
    /\ \A i \in 1..(MaxEta - 1) : Sound(EtaOf(resp)[i])
    /\ EtaOf(resp)[MaxEta].type = "dict"
    /\ "arrT" \notin DOMAIN EtaOf(resp)[MaxEta].members
    /\ outcome = "TypeError"

\* C10 as stated: every record's arrival_time is the wall-clock reading,
\* in America/Chicago, of the parsed arrival instant, whatever the zone of
\* the host and whatever offset the timestamp carries.
C10_ArrivalTimeInChicago ==
    FetchReturned =>
        \A i \in 1..Len(trains) :
            trains[i].arrival_time
              = Strftime(AsTimezoneOf(AssumeZone(Parse(ArrT(EtaOf(resp)[i]))), local_tz))

====
